---- MODULE Spec2Model ----
(***************************************************************************)
(* Model of sway-core's type checking of a function declaration            *)
(* (ty::TyFunctionDecl::type_check), of unify_return_statements, and of    *)
(* the selector encoding exercised by test_function_selector_behavior.     *)
(*                                                                         *)
(* The checkers the function calls into (generic binder, parameter binder, *)
(* type resolution, code-block checker, unification, bound checks) live    *)
(* outside function.rs.  Each such call is a step whose outcome is chosen  *)
(* nondeterministically; what function.rs does with the outcome is         *)
(* translated from the source.                                             *)
(***************************************************************************)
EXTENDS Integers, Sequences, FiniteSets, TLC

VARIABLES
    pc,                  \* position inside type_check
    fn_decl,             \* the FunctionDeclaration passed in
    is_method,
    is_in_impl_self,
    ctx,                 \* the caller's TypeCheckContext (flags and namespace)
    entry_namespace,     \* history: ctx.namespace when type_check was entered
    handler,             \* the Handler: diagnostics emitted, in order
    slab,                \* the type engine: TypeInfo by type identifier
    fn_namespace,        \* the clone made at line 58
    scoped,              \* the scoped context of lines 59-64
    new_type_parameters,
    new_parameters,
    error_emitted,       \* type_check's error_emitted (line 73)
    return_type,         \* return_type.type_id
    body,                \* the typed body (TyCodeBlock.contents)
    return_statements,
    idx,                 \* loop position (parameters, return statements)
    unify_error_emitted, \* unify_return_statements' error_emitted (line 178)
    unify_ret,           \* what unify_return_statements returned
    classified,          \* (visibility, is_contract_call) of lines 132-140
    result,              \* what type_check returned
    calls,               \* history: the calls made into the other checkers
    sel_pc,              \* position inside the selector test
    sel_decl,            \* the TyFunctionDecl whose selector is asked for
    sel_result           \* what to_selector_name returned

vars == <<pc, fn_decl, is_method, is_in_impl_self, ctx, entry_namespace, handler,
          slab, fn_namespace, scoped, new_type_parameters, new_parameters,
          error_emitted, return_type, body, return_statements, idx,
          unify_error_emitted, unify_ret, classified, result, calls,
          sel_pc, sel_decl, sel_result>>

tc_vars == <<pc, fn_decl, is_method, is_in_impl_self, ctx, entry_namespace,
             fn_namespace, scoped, new_type_parameters, new_parameters,
             error_emitted, return_type, body, return_statements, idx,
             unify_error_emitted, unify_ret, classified, result, calls>>

sel_vars == <<sel_pc, sel_decl, sel_result>>

----------------------------------------------------------------------------
(* Bounds of the model *)

MaxParams == 2      \* parameters of a declaration
MaxNodes == 2       \* AST nodes of a function body
MaxSlab == 3        \* type identifiers inserted by the selector test

----------------------------------------------------------------------------
(* Option, Result and the handler *)

None == [some |-> FALSE, val |-> 0]
Some(v) == [some |-> TRUE, val |-> v]

Warn(content, at) == [level |-> "warning", content |-> content, at |-> at]
Error(content, at) == [level |-> "error", content |-> content, at |-> at]

\* handler.emit_warn / handler.emit_err: append to the handler.
emit_warn(h, w) == Append(h, w)
emit_err(h, e) == Append(h, e)

\* ErrorEmitted has no payload.  So that the flow of tickets can be observed,
\* a ticket is tagged with the position in the handler of the error it proves.
TicketOf(h) == Len(h)

Warnings(h) == SelectSeq(h, LAMBDA d : d.level = "warning")
Errors(h) == SelectSeq(h, LAMBDA d : d.level = "error")

NoDecl == [name |-> <<>>]
Pending == [tag |-> "Pending", ticket |-> 0, val |-> NoDecl]
Err(t) == [tag |-> "Err", ticket |-> t, val |-> NoDecl]
Ok(v) == [tag |-> "Ok", ticket |-> 0, val |-> v]

\* An outcome of a checker outside function.rs: it succeeds, or emits an error
\* and fails.  The code-block checker may also succeed with a warning.
Outcomes == {"ok", "err"}
BodyOutcomes == {"ok", "warn", "err"}

\* What such a checker leaves in the handler.
Emitted(h, outcome, content, at) ==
    IF outcome = "warn" THEN emit_warn(h, Warn(content, at))
    ELSE IF outcome = "err" THEN emit_err(h, Error(content, at))
    ELSE h

\* unify_with_self returns (warnings, errors): how many of each.
UnifyOutcomes == {[warnings |-> 0, errors |-> 0], [warnings |-> 1, errors |-> 0],
                  [warnings |-> 0, errors |-> 1], [warnings |-> 1, errors |-> 1]}

----------------------------------------------------------------------------
(* Types *)

UnsignedInteger(bits) == [tag |-> "UnsignedInteger", n |-> bits]
Str(len) == [tag |-> "Str", n |-> len]
ErrorRecovery == [tag |-> "ErrorRecovery", n |-> 0]

\* type_engine.insert: a fresh identifier for the descriptor.
insert(s, info) == [slab |-> Append(s, info), id |-> Len(s) + 1]

----------------------------------------------------------------------------
(* Names *)

Uppercase == {"A", "B", "C", "D", "E", "F", "G", "H", "I", "J", "K", "L", "M",
              "N", "O", "P", "Q", "R", "S", "T", "U", "V", "W", "X", "Y", "Z"}

RECURSIVE trim_start_underscores(_)
trim_start_underscores(s) ==
    IF s # <<>> /\ Head(s) = "_" THEN trim_start_underscores(Tail(s)) ELSE s

\* sway_types::style::is_snake_case: after the leading underscores, no
\* double underscore and no uppercase letter.
is_snake_case(ident) ==
    LET trimmed == trim_start_underscores(ident)
    IN  /\ \A i \in 1..(Len(trimmed) - 1) : ~(trimmed[i] = "_" /\ trimmed[i + 1] = "_")
        /\ \A i \in 1..Len(trimmed) : trimmed[i] \notin Uppercase

foo_bar == <<"f", "o", "o", "_", "b", "a", "r">>
fooBar == <<"f", "o", "o", "B", "a", "r">>
foo__bar == <<"f", "o", "o", "_", "_", "b", "a", "r">>

FunctionNames == {foo_bar, fooBar, foo__bar}

----------------------------------------------------------------------------
(* The inputs of type_check *)

ParameterNames == <<"a", "b", "c", "d">>
Parameters(n) == [i \in 1..n |-> [name |-> ParameterNames[i]]]

\* A body node either holds no return statement or is one.
Nodes == {"decl", "return"}

SeqsUpTo(S, n) == UNION {[1..k -> S] : k \in 0..n}

FunctionDeclarations ==
    [name : FunctionNames,
     body : SeqsUpTo(Nodes, MaxNodes),
     parameters : {Parameters(n) : n \in 0..MaxParams},
     return_type : {1},
     type_parameters : {<<>>, <<"T">>},
     visibility : {"Private", "Public"}]

AbiModes == {"NonAbi", "ImplAbiFn"}

Contexts ==
    [functions_disallowed : BOOLEAN,
     abi_mode : AbiModes,
     namespace : {{"outer"}}]

NoScoped == [functions_disallowed |-> FALSE, abi_mode |-> "NonAbi",
             const_shadowing_mode |-> "none"]

InitialSlab == <<UnsignedInteger(32)>>

----------------------------------------------------------------------------
(* type_check, lines 18-165 *)

\* A call into another checker, as the history records it.
Call(op, at, expected, disallowed, warnings, errors) ==
    [op |-> op, at |-> at, expected |-> expected, functions_disallowed |-> disallowed,
     warnings |-> warnings, errors |-> errors]

CallsOf(op) == SelectSeq(calls, LAMBDA c : c.op = op)

Init ==
    /\ pc = "entry"
    /\ fn_decl \in FunctionDeclarations
    /\ is_method \in BOOLEAN
    /\ is_in_impl_self \in BOOLEAN
    /\ ctx \in Contexts
    /\ entry_namespace = ctx.namespace
    /\ handler = <<>>
    /\ slab = InitialSlab
    /\ fn_namespace = {}
    /\ scoped = NoScoped
    /\ new_type_parameters = <<>>
    /\ new_parameters = <<>>
    /\ error_emitted = None
    /\ return_type = fn_decl.return_type
    /\ body = <<>>
    /\ return_statements = <<>>
    /\ idx = 0
    /\ unify_error_emitted = None
    /\ unify_ret = Pending
    /\ classified = [visibility |-> "none", is_contract_call |-> FALSE]
    /\ result = Pending
    /\ calls = <<>>
    /\ sel_pc = "idle"
    /\ sel_decl = NoDecl
    /\ sel_result = Pending

\* A variant of functions_disallowed: the flag is never consulted.
functions_disallowed_ignored(c) == FALSE

\* ctx.functions_disallowed(), line 42.
functions_disallowed(c) == c.functions_disallowed

\* Lines 41-47: a function where functions are not allowed is an error.
CheckFunctionsDisallowed ==
    /\ pc = "entry"
    /\ IF functions_disallowed(ctx)
       THEN /\ handler' = emit_err(handler, Error("Unimplemented", 0))
            /\ result' = Err(TicketOf(handler'))
            /\ pc' = "done"
       ELSE /\ pc' = "snake_case"
            /\ UNCHANGED <<handler, result>>
    /\ UNCHANGED <<fn_decl, is_method, is_in_impl_self, ctx, entry_namespace, slab,
                   fn_namespace, scoped, new_type_parameters, new_parameters,
                   error_emitted, return_type, body, return_statements, idx,
                   unify_error_emitted, unify_ret, classified, calls, sel_vars>>

\* A variant of snake_case_warnings: the negation is lost.
snake_case_warnings_inverted(name) ==
    IF is_snake_case(name) THEN <<Warn("NonSnakeCaseFunctionName", 0)>> ELSE <<>>

\* Lines 49-55: the warnings the name gives rise to.
snake_case_warnings(name) ==
    IF ~is_snake_case(name) THEN <<Warn("NonSnakeCaseFunctionName", 0)>> ELSE <<>>

WarnNonSnakeCase ==
    /\ pc = "snake_case"
    /\ handler' = handler \o snake_case_warnings(fn_decl.name)
    /\ pc' = "namespace"
    /\ UNCHANGED <<fn_decl, is_method, is_in_impl_self, ctx, entry_namespace, slab,
                   fn_namespace, scoped, new_type_parameters, new_parameters,
                   error_emitted, return_type, body, return_statements, idx,
                   unify_error_emitted, unify_ret, classified, result, calls, sel_vars>>

\* Lines 57-64: the function's namespace is a clone, and the context is
\* rescoped on it with functions disallowed.
CreateNamespace ==
    /\ pc = "namespace"
    /\ fn_namespace' = ctx.namespace
    /\ scoped' = [functions_disallowed |-> TRUE, abi_mode |-> ctx.abi_mode,
                  const_shadowing_mode |-> "Sequential"]
    /\ pc' = "type_params"
    /\ UNCHANGED <<fn_decl, is_method, is_in_impl_self, ctx, entry_namespace, handler,
                   slab, new_type_parameters, new_parameters, error_emitted,
                   return_type, body, return_statements, idx, unify_error_emitted,
                   unify_ret, classified, result, calls, sel_vars>>

\* A variant of bind_in_scope: the context is not rescoped and the names land
\* in the caller's namespace.
bind_in_caller(caller_namespace, function_namespace, names) ==
    [caller |-> caller_namespace \cup names, function |-> function_namespace]

\* Where a binder called with the scoped context inserts: .scoped(&mut
\* fn_namespace), line 61.  The namespaces after the names are bound.
bind_in_scope(caller_namespace, function_namespace, names) ==
    [caller |-> caller_namespace, function |-> function_namespace \cup names]

Range(s) == {s[i] : i \in 1..Len(s)}

\* Lines 66-69: the generics are checked and bound; a failure aborts (the ?).
TypeCheckTypeParams ==
    /\ pc = "type_params"
    /\ \E outcome \in Outcomes :
        /\ handler' = Emitted(handler, outcome, "type_check_type_params", 0)
        /\ calls' = Append(calls, Call("type_check_type_params", 0, 0,
                                       scoped.functions_disallowed, 0,
                                       IF outcome = "err" THEN 1 ELSE 0))
        /\ IF outcome = "err"
           THEN /\ result' = Err(TicketOf(handler'))
                /\ pc' = "done"
                /\ UNCHANGED <<ctx, fn_namespace, new_type_parameters, idx>>
           ELSE /\ LET bound == bind_in_scope(ctx.namespace, fn_namespace,
                                              Range(fn_decl.type_parameters))
                   IN  /\ ctx' = [ctx EXCEPT !.namespace = bound.caller]
                       /\ fn_namespace' = bound.function
                /\ new_type_parameters' = fn_decl.type_parameters
                /\ idx' = 1
                /\ pc' = "parameters"
                /\ UNCHANGED result
    /\ UNCHANGED <<fn_decl, is_method, is_in_impl_self, entry_namespace, slab, scoped,
                   new_parameters, error_emitted, return_type, body,
                   return_statements, unify_error_emitted, unify_ret, classified,
                   sel_vars>>

\* A variant of parameter_error_emitted: the first ticket is kept.
parameter_error_emitted_first(current, res) ==
    IF current.some THEN current
    ELSE IF res.tag = "Err" THEN Some(res.ticket) ELSE current

\* Lines 76-82: what error_emitted holds after a parameter's check returned.
parameter_error_emitted(current, res) ==
    IF res.tag = "Err" THEN Some(res.ticket) ELSE current

\* Lines 74-84: one turn of the loop over the parameters.
TypeCheckParameter ==
    /\ pc = "parameters"
    /\ idx <= Len(fn_decl.parameters)
    /\ \E outcome \in Outcomes :
        /\ handler' = Emitted(handler, outcome, "parameter", idx)
        /\ calls' = Append(calls, Call("parameter", idx, 0,
                                       scoped.functions_disallowed, 0,
                                       IF outcome = "err" THEN 1 ELSE 0))
        /\ LET res == IF outcome = "err" THEN Err(TicketOf(handler'))
                      ELSE Ok(fn_decl.parameters[idx])
           IN  /\ error_emitted' = parameter_error_emitted(error_emitted, res)
               /\ IF res.tag = "Ok"
                  THEN /\ new_parameters' = Append(new_parameters, res.val)
                       /\ LET bound == bind_in_scope(ctx.namespace, fn_namespace,
                                                     {res.val.name})
                          IN  /\ ctx' = [ctx EXCEPT !.namespace = bound.caller]
                              /\ fn_namespace' = bound.function
                  ELSE UNCHANGED <<new_parameters, ctx, fn_namespace>>
    /\ idx' = idx + 1
    /\ UNCHANGED <<pc, fn_decl, is_method, is_in_impl_self, entry_namespace, slab,
                   scoped, new_type_parameters, return_type, body, return_statements,
                   unify_error_emitted, unify_ret, classified, result, sel_vars>>

\* Lines 85-87: after the loop, a recorded failure aborts.
ParametersChecked ==
    /\ pc = "parameters"
    /\ idx > Len(fn_decl.parameters)
    /\ IF error_emitted.some
       THEN /\ result' = Err(error_emitted.val)
            /\ pc' = "done"
       ELSE /\ pc' = "return_type"
            /\ UNCHANGED result
    /\ UNCHANGED <<fn_decl, is_method, is_in_impl_self, ctx, entry_namespace, handler,
                   slab, fn_namespace, scoped, new_type_parameters, new_parameters,
                   error_emitted, return_type, body, return_statements, idx,
                   unify_error_emitted, unify_ret, classified, calls, sel_vars>>

\* A variant of resolve_return_type: a failed resolution leaves the annotation.
resolve_return_type_unrecovered(outcome, type_id, s) == [slab |-> s, id |-> type_id]

\* Lines 90-98: resolve_type_with_self(..).unwrap_or_else(|_| insert(ErrorRecovery)).
\* A resolved annotation keeps its identifier.
resolve_return_type(outcome, type_id, s) ==
    IF outcome = "err" THEN insert(s, ErrorRecovery) ELSE [slab |-> s, id |-> type_id]

ResolveReturnType ==
    /\ pc = "return_type"
    /\ \E outcome \in Outcomes :
        /\ handler' = Emitted(handler, outcome, "resolve_type_with_self", 0)
        /\ calls' = Append(calls, Call("resolve_type_with_self", 0, 0,
                                       scoped.functions_disallowed, 0,
                                       IF outcome = "err" THEN 1 ELSE 0))
        /\ LET resolved == resolve_return_type(outcome, return_type, slab)
           IN  /\ return_type' = resolved.id
               /\ slab' = resolved.slab
    /\ pc' = "body"
    /\ UNCHANGED <<fn_decl, is_method, is_in_impl_self, ctx, entry_namespace,
                   fn_namespace, scoped, new_type_parameters, new_parameters,
                   error_emitted, body, return_statements, idx, unify_error_emitted,
                   unify_ret, classified, result, sel_vars>>

\* The typed body the code-block checker returns for a body it accepts: one
\* typed node per node, a return statement carrying its span and its type.
TypedContents(nodes) ==
    [i \in 1..Len(nodes) |-> [kind |-> nodes[i], span |-> i, return_type |-> 1]]

\* A variant of type_check_body: a failed check keeps the statements.
type_check_body_kept(outcome, nodes, s) ==
    [contents |-> TypedContents(nodes), implicit_block_return |-> 1, slab |-> s]

\* Lines 110-115: TyCodeBlock::type_check(..).unwrap_or_else(|_| (empty block,
\* insert(ErrorRecovery))).
type_check_body(outcome, nodes, s) ==
    IF outcome = "err"
    THEN [contents |-> <<>>, implicit_block_return |-> insert(s, ErrorRecovery).id,
          slab |-> insert(s, ErrorRecovery).slab]
    ELSE [contents |-> TypedContents(nodes), implicit_block_return |-> 1, slab |-> s]

\* Lines 100-116: the body is checked against the return type annotation.
TypeCheckBody ==
    /\ pc = "body"
    /\ \E outcome \in BodyOutcomes :
        /\ handler' = Emitted(handler, outcome, "code_block", 0)
        /\ calls' = Append(calls, Call("code_block", 0, return_type,
                                       scoped.functions_disallowed,
                                       IF outcome = "warn" THEN 1 ELSE 0,
                                       IF outcome = "err" THEN 1 ELSE 0))
        /\ LET checked == type_check_body(outcome, fn_decl.body, slab)
           IN  /\ body' = checked.contents
               /\ slab' = checked.slab
    /\ pc' = "gather"
    /\ UNCHANGED <<fn_decl, is_method, is_in_impl_self, ctx, entry_namespace,
                   fn_namespace, scoped, new_type_parameters, new_parameters,
                   error_emitted, return_type, return_statements, idx,
                   unify_error_emitted, unify_ret, classified, result, sel_vars>>

\* node.gather_return_statements(), line 122.
gather_return_statements(node) == IF node.kind = "return" THEN <<node>> ELSE <<>>

RECURSIVE flat_map(_)
flat_map(contents) ==
    IF contents = <<>> THEN <<>>
    ELSE gather_return_statements(Head(contents)) \o flat_map(Tail(contents))

\* Lines 118-125: the return statements are gathered and handed to
\* unify_return_statements, which starts with error_emitted = None (line 178).
GatherReturnStatements ==
    /\ pc = "gather"
    /\ return_statements' = flat_map(body)
    /\ unify_error_emitted' = None
    /\ idx' = 1
    /\ pc' = "unify"
    /\ UNCHANGED <<fn_decl, is_method, is_in_impl_self, ctx, entry_namespace, handler,
                   slab, fn_namespace, scoped, new_type_parameters, new_parameters,
                   error_emitted, return_type, body, unify_ret, classified, result,
                   calls, sel_vars>>

----------------------------------------------------------------------------
(* unify_return_statements, lines 170-202 *)

RECURSIVE Repeat(_, _)
Repeat(d, n) == IF n = 0 THEN <<>> ELSE <<d>> \o Repeat(d, n - 1)

\* A variant of next_statement: the loop breaks at the first error.
next_statement_break(i, n, errors) == IF errors > 0 THEN n + 1 ELSE i + 1

\* Line 180: the statement the loop turns to after statement i of n, whose
\* unification produced `errors` errors.
next_statement(i, n, errors) == i + 1

\* Lines 190-195: the handler after a unification's warnings and errors.
emit_unified(h, span, warnings, errors) ==
    (h \o Repeat(Warn("unify", span), warnings)) \o Repeat(Error("unify", span), errors)

\* Lines 180-196: one turn of the loop over the return statements.
UnifyReturnStatement ==
    /\ pc = "unify"
    /\ idx <= Len(return_statements)
    /\ \E unified \in UnifyOutcomes :
        LET stmt == return_statements[idx]
        IN  /\ calls' = Append(calls, Call("unify_with_self", stmt.span, return_type,
                                           scoped.functions_disallowed,
                                           unified.warnings, unified.errors))
            /\ handler' = emit_unified(handler, stmt.span, unified.warnings,
                                       unified.errors)
            /\ unify_error_emitted' = IF unified.errors > 0
                                      THEN Some(TicketOf(handler'))
                                      ELSE unify_error_emitted
            /\ idx' = next_statement(idx, Len(return_statements), unified.errors)
    /\ UNCHANGED <<pc, fn_decl, is_method, is_in_impl_self, ctx, entry_namespace, slab,
                   fn_namespace, scoped, new_type_parameters, new_parameters,
                   error_emitted, return_type, body, return_statements, unify_ret,
                   classified, result, sel_vars>>

\* Lines 197-201, and the ? of line 130 on what they return.
UnifyReturn ==
    /\ pc = "unify"
    /\ idx > Len(return_statements)
    /\ unify_ret' = IF unify_error_emitted.some THEN Err(unify_error_emitted.val)
                    ELSE Ok(NoDecl)
    /\ IF unify_ret'.tag = "Err"
       THEN /\ result' = Err(unify_ret'.ticket)
            /\ pc' = "done"
       ELSE /\ pc' = "classify"
            /\ UNCHANGED result
    /\ UNCHANGED <<fn_decl, is_method, is_in_impl_self, ctx, entry_namespace, handler,
                   slab, fn_namespace, scoped, new_type_parameters, new_parameters,
                   error_emitted, return_type, body, return_statements, idx,
                   unify_error_emitted, classified, calls, sel_vars>>

----------------------------------------------------------------------------
(* type_check, lines 132-165 *)

\* A variant of classify_visibility: the two method branches are swapped.
classify_visibility_swapped(method, in_impl_self, visibility) ==
    IF method
    THEN IF in_impl_self THEN "Public" ELSE visibility
    ELSE visibility

\* Lines 132-140, first component.
classify_visibility(method, in_impl_self, visibility) ==
    IF method
    THEN IF in_impl_self THEN visibility ELSE "Public"
    ELSE visibility

\* A variant of classify_is_contract_call: methods are not told apart.
classify_is_contract_call_any(method, abi_mode) == abi_mode = "ImplAbiFn"

\* Lines 132-140, second component.
classify_is_contract_call(method, abi_mode) ==
    IF method THEN FALSE ELSE abi_mode = "ImplAbiFn"

Classify ==
    /\ pc = "classify"
    /\ classified' = [visibility |-> classify_visibility(is_method, is_in_impl_self,
                                                         fn_decl.visibility),
                      is_contract_call |-> classify_is_contract_call(is_method,
                                                                     scoped.abi_mode)]
    /\ pc' = "bounds"
    /\ UNCHANGED <<fn_decl, is_method, is_in_impl_self, ctx, entry_namespace, handler,
                   slab, fn_namespace, scoped, new_type_parameters, new_parameters,
                   error_emitted, return_type, body, return_statements, idx,
                   unify_error_emitted, unify_ret, result, calls, sel_vars>>

\* Lines 142-164: the bounds of the return type are checked (a failure aborts)
\* and the declaration is built and returned.
CheckTypeParameterBounds ==
    /\ pc = "bounds"
    /\ \E outcome \in Outcomes :
        /\ handler' = Emitted(handler, outcome, "check_type_parameter_bounds", 0)
        /\ calls' = Append(calls, Call("check_type_parameter_bounds", 0, return_type,
                                       scoped.functions_disallowed, 0,
                                       IF outcome = "err" THEN 1 ELSE 0))
        /\ result' = IF outcome = "err"
                     THEN Err(TicketOf(handler'))
                     ELSE Ok([name |-> fn_decl.name,
                              body |-> body,
                              parameters |-> new_parameters,
                              return_type |-> return_type,
                              type_parameters |-> new_type_parameters,
                              visibility |-> classified.visibility,
                              is_contract_call |-> classified.is_contract_call])
    /\ pc' = "done"
    /\ UNCHANGED <<fn_decl, is_method, is_in_impl_self, ctx, entry_namespace, slab,
                   fn_namespace, scoped, new_type_parameters, new_parameters,
                   error_emitted, return_type, body, return_statements, idx,
                   unify_error_emitted, unify_ret, classified, sel_vars>>

----------------------------------------------------------------------------
(* The selector of a typed declaration, as test_function_selector_behavior
   (lines 204-280) builds declarations and asks for it.  Type identifiers
   count from 1 here. *)

foo == <<"f", "o", "o">>
bar == <<"b", "a", "r">>

SelectorNames == {foo, bar}
TypeInfos == {UnsignedInteger(32), Str(5), ErrorRecovery}

\* From<TypeId> for TypeArgument (the .into() of line 247): both identifiers
\* are the one given.
TypeArgumentFrom(id) == [type_id |-> id, initial_type_id |-> id]

TypeArguments(s) == [type_id : 1..Len(s), initial_type_id : 1..Len(s)]

\* Lines 212-225.
FooDecl == [name |-> foo, parameters |-> <<>>]

\* The type engine after the three inserts of lines 244-260.
BarSlab == insert(insert(insert(<<>>, Str(5)).slab, UnsignedInteger(32)).slab, Str(5)).slab

\* Lines 233-273.
BarDecl ==
    [name |-> bar,
     parameters |-> <<[name |-> "foo", type_argument |-> TypeArgumentFrom(1)],
                      [name |-> "baz",
                       type_argument |-> [type_id |-> 2, initial_type_id |-> 3]]>>]

Digit == <<"0", "1", "2", "3", "4", "5", "6", "7", "8", "9">>

RECURSIVE Decimal(_)
Decimal(n) ==
    IF n < 10 THEN <<Digit[n + 1]>> ELSE Decimal(n \div 10) \o <<Digit[(n % 10) + 1]>>

\* The encoding of a descriptor: u<bits>, str[<length>]; ErrorRecovery has none.
type_info_selector_name(info) ==
    IF info.tag = "UnsignedInteger" THEN Ok(<<"u">> \o Decimal(info.n))
    ELSE IF info.tag = "Str" THEN Ok(<<"s", "t", "r", "[">> \o Decimal(info.n) \o <<"]">>)
    ELSE Err(0)

\* A variant of selector_type_id: the identifier of the surface syntax.
selector_initial_type_id(parameter) == parameter.type_argument.initial_type_id

\* The identifier of a parameter the encoding reads: the resolved one.
selector_type_id(parameter) == parameter.type_argument.type_id

RECURSIVE join(_, _)
join(texts, sep) ==
    IF texts = <<>> THEN <<>>
    ELSE IF Len(texts) = 1 THEN texts[1]
    ELSE (texts[1] \o sep) \o join(Tail(texts), sep)

\* decl.to_selector_name(handler, engines): name(t1,...,tn), or an error when
\* a parameter's descriptor has no encoding.
to_selector_name(decl, s) ==
    LET named_params == [i \in 1..Len(decl.parameters) |->
                            type_info_selector_name(s[selector_type_id(decl.parameters[i])])]
    IN  IF \E i \in 1..Len(named_params) : named_params[i].tag = "Err"
        THEN Err(0)
        ELSE Ok(((decl.name \o <<"(">>)
                 \o join([i \in 1..Len(named_params) |-> named_params[i].val], <<",">>))
                \o <<")">>)

SelInit ==
    /\ pc = "idle"
    /\ fn_decl = [name |-> <<>>, body |-> <<>>, parameters |-> <<>>, return_type |-> 0,
                  type_parameters |-> <<>>, visibility |-> "Public"]
    /\ is_method = FALSE
    /\ is_in_impl_self = FALSE
    /\ ctx = [functions_disallowed |-> FALSE, abi_mode |-> "NonAbi", namespace |-> {}]
    /\ entry_namespace = {}
    /\ handler = <<>>
    /\ slab = <<>>
    /\ fn_namespace = {}
    /\ scoped = NoScoped
    /\ new_type_parameters = <<>>
    /\ new_parameters = <<>>
    /\ error_emitted = None
    /\ return_type = 0
    /\ body = <<>>
    /\ return_statements = <<>>
    /\ idx = 0
    /\ unify_error_emitted = None
    /\ unify_ret = Pending
    /\ classified = [visibility |-> "none", is_contract_call |-> FALSE]
    /\ result = Pending
    /\ calls = <<>>
    /\ sel_pc = "build"
    /\ sel_decl = NoDecl
    /\ sel_result = Pending

\* engines.te().insert(&engines, info), lines 244-260.
InsertType ==
    /\ sel_pc = "build"
    /\ Len(slab) < MaxSlab
    /\ \E info \in TypeInfos : slab' = insert(slab, info).slab
    /\ UNCHANGED <<tc_vars, handler, sel_vars>>

\* A declaration is built over the identifiers inserted so far.
BuildDecl ==
    /\ sel_pc = "build"
    /\ \E name \in SelectorNames, n \in 0..MaxParams :
        \E arguments \in [1..n -> TypeArguments(slab)] :
            sel_decl' = [name |-> name,
                         parameters |-> [i \in 1..n |->
                                            [name |-> ParameterNames[i],
                                             type_argument |-> arguments[i]]]]
    /\ sel_pc' = "call"
    /\ UNCHANGED <<tc_vars, handler, slab, sel_result>>

\* The declaration lines 233-273 build, with their parameter names.
BuildBarDecl ==
    /\ sel_pc = "build"
    /\ slab = BarSlab
    /\ sel_decl' = BarDecl
    /\ sel_pc' = "call"
    /\ UNCHANGED <<tc_vars, handler, slab, sel_result>>

\* decl.to_selector_name(&handler, &engines), lines 227-229 and 275-277.
ToSelectorName ==
    /\ sel_pc = "call"
    /\ sel_result' = to_selector_name(sel_decl, slab)
    /\ handler' = IF sel_result'.tag = "Err"
                  THEN emit_err(handler, Error("to_selector_name", 0))
                  ELSE handler
    /\ sel_pc' = "done"
    /\ UNCHANGED <<tc_vars, slab, sel_decl>>

SelNext ==
    \/ InsertType
    \/ BuildDecl
    \/ BuildBarDecl
    \/ ToSelectorName

SelSpec == SelInit /\ [][SelNext]_vars

Next ==
    \/ CheckFunctionsDisallowed
    \/ WarnNonSnakeCase
    \/ CreateNamespace
    \/ TypeCheckTypeParams
    \/ TypeCheckParameter
    \/ ParametersChecked
    \/ ResolveReturnType
    \/ TypeCheckBody
    \/ GatherReturnStatements
    \/ UnifyReturnStatement
    \/ UnifyReturn
    \/ Classify
    \/ CheckTypeParameterBounds

Spec == Init /\ [][Next]_vars

----------------------------------------------------------------------------
(* Properties *)

Failed(op) == \E i \in 1..Len(CallsOf(op)) : CallsOf(op)[i].errors > 0
Made(op) == CallsOf(op) # <<>>

\* The position in the handler of a diagnostic emitted once.
PositionOf(d) == CHOOSE h \in 1..Len(handler) : handler[h] = d

UnifyDiagnostics == SelectSeq(handler, LAMBDA d : d.content = "unify")

RECURSIVE DiagnosticsOfUnifications(_)
DiagnosticsOfUnifications(unifications) ==
    IF unifications = <<>> THEN <<>>
    ELSE LET c == Head(unifications)
         IN  ([i \in 1..c.warnings |-> Warn("unify", c.at)]
              \o [i \in 1..c.errors |-> Error("unify", c.at)])
             \o DiagnosticsOfUnifications(Tail(unifications))

\* C1: unify_return_statements unifies each return statement once, in list
\* order, and goes on after a failing one; all warnings and errors of the
\* unifications are in the handler; it returns Err exactly when some
\* unification produced an error.
C1_UnifyVisitsAll ==
    LET unifications == CallsOf("unify_with_self")
    IN  /\ \A k \in 1..Len(unifications) :
              /\ k <= Len(return_statements)
              /\ unifications[k].at = return_statements[k].span
              /\ unifications[k].expected = return_type
        /\ pc = "unify" => Len(unifications) = idx - 1
        /\ UnifyDiagnostics = DiagnosticsOfUnifications(unifications)
        /\ unify_ret.tag # "Pending" =>
              /\ Len(unifications) = Len(return_statements)
              /\ unify_ret.tag = "Err" <=> Failed("unify_with_self")

C1_Witness ==
    LET unifications == CallsOf("unify_with_self")
    IN  /\ unify_ret.tag = "Err"
        /\ Len(return_statements) = 2
        /\ Len(unifications) = 2
        /\ unifications[1].errors = 1
        /\ unifications[2].errors = 0
        /\ unifications[2].warnings = 1
        /\ Len(Errors(handler)) = 1
        /\ result.tag = "Err"

FailingParameters == {i \in 1..Len(CallsOf("parameter")) : CallsOf("parameter")[i].errors > 0}
Min(S) == CHOOSE x \in S : \A y \in S : x <= y
Max(S) == CHOOSE x \in S : \A y \in S : y <= x

ParametersAllAttempted ==
    /\ Len(CallsOf("parameter")) = Len(fn_decl.parameters)
    /\ \A i \in 1..Len(fn_decl.parameters) : CallsOf("parameter")[i].at = i

AbortedBeforeReturnType ==
    /\ result.tag = "Err"
    /\ ~Made("resolve_type_with_self")
    /\ ~Made("code_block")
    /\ ~Made("unify_with_self")
    /\ ~Made("check_type_parameter_bounds")

\* C2 (as stated): every parameter is attempted in order even after a failing
\* one; if one failed the declaration is aborted after the whole list, before
\* the return type is resolved, with the ticket of the first failing parameter.
C2_FirstTicket ==
    /\ FailingParameters # {} => pc \in {"parameters", "done"}
    /\ (pc = "done" /\ FailingParameters # {}) =>
          /\ ParametersAllAttempted
          /\ AbortedBeforeReturnType
          /\ result.ticket = PositionOf(Error("parameter", Min(FailingParameters)))

\* C2 (amended): as stated, except that the ticket re-raised is the ticket of
\* the last failing parameter.
C2_LastTicket ==
    /\ FailingParameters # {} => pc \in {"parameters", "done"}
    /\ (pc = "done" /\ FailingParameters # {}) =>
          /\ ParametersAllAttempted
          /\ AbortedBeforeReturnType
          /\ result.ticket = PositionOf(Error("parameter", Max(FailingParameters)))

C2_Witness ==
    /\ pc = "done"
    /\ Len(fn_decl.parameters) = 2
    /\ FailingParameters = {1, 2}
    /\ handler[result.ticket] = Error("parameter", 2)
    /\ new_parameters = <<>>

\* C3: a successful type_check returns visibility Public for a method outside
\* impl Self, whatever was declared, and the declared visibility otherwise.
C3_Visibility ==
    result.tag = "Ok" =>
        /\ (is_method /\ ~is_in_impl_self) => result.val.visibility = "Public"
        /\ (is_method /\ is_in_impl_self) => result.val.visibility = fn_decl.visibility
        /\ ~is_method => result.val.visibility = fn_decl.visibility

C3_Witness ==
    /\ result.tag = "Ok"
    /\ is_method
    /\ ~is_in_impl_self
    /\ fn_decl.visibility = "Private"
    /\ result.val.visibility = "Public"

\* C4: a successful type_check returns is_contract_call true exactly for a
\* function that is not a method checked inside an ABI implementation.
C4_ContractCall ==
    result.tag = "Ok" =>
        /\ result.val.is_contract_call <=> (~is_method /\ ctx.abi_mode = "ImplAbiFn")
        /\ is_method => ~result.val.is_contract_call

C4_Witness ==
    /\ result.tag = "Ok"
    /\ ~is_method
    /\ ctx.abi_mode = "ImplAbiFn"
    /\ fn_decl.visibility = "Private"
    /\ result.val.is_contract_call

\* C5: where functions are disallowed, type_check returns Err after emitting
\* one error and nothing else: no warning, no call into a checker, no scope.
C5_Disallowed ==
    ctx.functions_disallowed =>
        /\ pc \in {"entry", "done"}
        /\ calls = <<>>
        /\ fn_namespace = {}
        /\ scoped = NoScoped
        /\ pc = "done" =>
              /\ result.tag = "Err"
              /\ handler = <<Error("Unimplemented", 0)>>
              /\ result.ticket = 1

C5_Witness ==
    /\ ctx.functions_disallowed
    /\ pc = "done"
    /\ fn_decl.name = fooBar
    /\ Len(fn_decl.parameters) = 2
    /\ Len(handler) = 1
    /\ result.tag = "Err"

AfterBody == pc \in {"gather", "unify", "classify", "bounds", "done"}

\* C6: a return type that fails to resolve does not abort: it becomes a newly
\* inserted ErrorRecovery identifier, the body is checked with it as its type
\* annotation, the return statements are unified against it, and a
\* declaration returned carries its body and that return type.
C6_ReturnTypeRecovered ==
    Failed("resolve_type_with_self") =>
        /\ return_type = Len(InitialSlab) + 1
        /\ return_type # fn_decl.return_type
        /\ slab[return_type] = ErrorRecovery
        /\ pc # "return_type"
        /\ (AfterBody => /\ Len(CallsOf("code_block")) = 1
                         /\ CallsOf("code_block")[1].expected = return_type)
        /\ \A k \in 1..Len(CallsOf("unify_with_self")) :
              CallsOf("unify_with_self")[k].expected = return_type
        /\ unify_ret.tag # "Pending" =>
              Len(CallsOf("unify_with_self")) = Len(return_statements)
        /\ result.tag = "Ok" =>
              /\ result.val.return_type = return_type
              /\ result.val.body = body
              /\ ~Failed("code_block") => result.val.body = TypedContents(fn_decl.body)

C6_Witness ==
    /\ Failed("resolve_type_with_self")
    /\ result.tag = "Ok"
    /\ slab[result.val.return_type] = ErrorRecovery
    /\ Len(result.val.body) = 2
    /\ Len(CallsOf("unify_with_self")) = 2

Clean == \A i \in 1..Len(calls) : calls[i].warnings = 0 /\ calls[i].errors = 0

\* C7: a declaration whose checks are all clean and whose name is not snake
\* case gives one NonSnakeCaseFunctionName warning, no error, and Ok; a
\* snake-case name gives no warning.
C7_SnakeCase ==
    (pc = "done" /\ ~ctx.functions_disallowed /\ Clean) =>
        /\ result.tag = "Ok"
        /\ result.val.name = fn_decl.name
        /\ fn_decl.name \in {fooBar, foo__bar} =>
              handler = <<Warn("NonSnakeCaseFunctionName", 0)>>
        /\ fn_decl.name = foo_bar => handler = <<>>

C7_Witness ==
    /\ pc = "done"
    /\ Clean
    /\ fn_decl.name = fooBar
    /\ result.tag = "Ok"
    /\ handler = <<Warn("NonSnakeCaseFunctionName", 0)>>
    /\ Len(CallsOf("unify_with_self")) = 2

\* The text of the descriptors the selector test uses.
TextOf(info) ==
    IF info = UnsignedInteger(32) THEN <<"u", "3", "2">>
    ELSE IF info = Str(5) THEN <<"s", "t", "r", "[", "5", "]">>
    ELSE <<"?">>

RECURSIVE ResolvedTexts(_)
ResolvedTexts(parameters) ==
    IF parameters = <<>> THEN <<>>
    ELSE IF Len(parameters) = 1 THEN TextOf(slab[parameters[1].type_argument.type_id])
    ELSE (TextOf(slab[parameters[1].type_argument.type_id]) \o <<",">>)
         \o ResolvedTexts(Tail(parameters))

Encodable(decl) ==
    \A i \in 1..Len(decl.parameters) :
        slab[decl.parameters[i].type_argument.type_id] # ErrorRecovery

\* C8: the selector is name(t1,...,tn), ti the text of the resolved
\* descriptor of parameter i and never that of its initial identifier; foo
\* without parameters gives foo(), and bar(str[5], u32 declared as str[5])
\* gives bar(str[5],u32).
C8_Selector ==
    sel_pc = "done" =>
        /\ Encodable(sel_decl) =>
              /\ sel_result.tag = "Ok"
              /\ sel_result.val
                    = ((sel_decl.name \o <<"(">>) \o ResolvedTexts(sel_decl.parameters))
                      \o <<")">>
        /\ sel_decl = FooDecl => sel_result.val = <<"f", "o", "o", "(", ")">>
        /\ (sel_decl = BarDecl /\ slab = BarSlab) =>
              sel_result.val = <<"b", "a", "r", "(", "s", "t", "r", "[", "5", "]", ",",
                                 "u", "3", "2", ")">>

C8_Witness ==
    /\ sel_pc = "done"
    /\ sel_decl = BarDecl
    /\ slab = <<Str(5), UnsignedInteger(32), Str(5)>>
    /\ sel_result.tag = "Ok"
    /\ sel_result.val = <<"b", "a", "r", "(", "s", "t", "r", "[", "5", "]", ",",
                          "u", "3", "2", ")">>

\* C9: a body the code-block checker rejects does not abort: the body becomes
\* an empty block (with an ErrorRecovery implicit return type), no return
\* statement is gathered, none is unified and unification succeeds, and
\* type_check returns Ok with the empty body if the bounds check succeeds.
C9_BodyRecovered ==
    Failed("code_block") =>
        /\ AfterBody
        /\ body = <<>>
        /\ slab[Len(slab)] = ErrorRecovery
        /\ return_statements = <<>>
        /\ ~Made("unify_with_self")
        /\ unify_ret.tag \in {"Pending", "Ok"}
        /\ pc = "done" =>
              /\ Made("check_type_parameter_bounds")
              /\ ~Failed("check_type_parameter_bounds") =>
                    /\ result.tag = "Ok"
                    /\ result.val.body = <<>>

C9_Witness ==
    /\ Failed("code_block")
    /\ pc = "done"
    /\ fn_decl.body = <<"return", "return">>
    /\ result.tag = "Ok"
    /\ result.val.body = <<>>

\* C10: generics and parameters are bound in a clone of the caller's
\* namespace: the caller's namespace is, at every point and after every
\* return, what it was at entry; and the body is checked with functions
\* disallowed.
C10_CallerNamespace ==
    /\ ctx.namespace = entry_namespace
    /\ \A i \in 1..Len(CallsOf("code_block")) :
          CallsOf("code_block")[i].functions_disallowed
    /\ result.tag = "Ok" =>
          fn_namespace = (entry_namespace \cup Range(fn_decl.type_parameters))
                            \cup {fn_decl.parameters[i].name :
                                    i \in 1..Len(fn_decl.parameters)}

C10_Witness ==
    /\ pc = "done"
    /\ result.tag = "Ok"
    /\ ctx.namespace = {"outer"}
    /\ fn_namespace = {"outer", "T", "a", "b"}

====
